---- MODULE Spec2Model ----
(***************************************************************************)
(* The property manager of anonymizer/datasource/managers.py (and its      *)
(* legacy variant manager.py) as a state machine: a manager is built from  *)
(* a configuration, then serves all / filter / get / get_dependencies /    *)
(* combine calls.                                                          *)
(*                                                                         *)
(* A Python string is a sequence of one-character strings, so that the     *)
(* code's split, find, slicing and first-character tests are computed as   *)
(* the code computes them. Multi-letter words that the code never looks    *)
(* into (SQL keywords, the aggregate name) are one symbol.  A property     *)
(* object is its index in self.properties; None is index 0.  A record      *)
(* (Python dict) is a function from property names to values.              *)
(***************************************************************************)
EXTENDS Integers, Sequences, FiniteSets, TLC

VARIABLES
    pc,          \* "new" | "failed" | "idle" | "returned"
    properties,  \* PropertyManager.properties (sequence of Property objects)
    token,       \* PropertyManager.token
    op,          \* the call in progress / just returned
    arg,         \* its arguments (filters, pk, prop, old_list and new_list)
    store,       \* the rows the store held during the call
    sql,         \* the token sequence last handed to connection.execute
    out,         \* [err, val]: the exception raised, or the value returned
    managers,    \* the managers constructed side by side: how, and their token
    uuids        \* the number of uuid.uuid4() calls made so far

vars == <<pc, properties, token, op, arg, store, sql, out, managers, uuids>>

----------------------------------------------------------------------------
(* Bounds of the model *)

\* Python's recursion limit (sys.getrecursionlimit(), 1000 by default), scaled
MaxDepth == 6
\* largest value a stored column or a provider result takes (0..MaxVal)
MaxVal == 1
\* largest raw primary key in the store (1..MaxKey)
MaxKey == 2

\* the managers constructed side by side
MaxManagers == 2

\* the tokens a caller supplies are 0..MaxToken
MaxToken == 1

----------------------------------------------------------------------------
(* Python string helpers *)

RECURSIVE SplitAcc(_, _, _, _, _)
SplitAcc(s, c, i, cur, acc) ==
    IF i > Len(s) THEN Append(acc, cur)
    ELSE IF s[i] = c THEN SplitAcc(s, c, i + 1, <<>>, Append(acc, cur))
    ELSE SplitAcc(s, c, i + 1, Append(cur, s[i]), acc)

\* str.split(c)
Split(s, c) == SplitAcc(s, c, 1, <<>>, <<>>)

\* str.find(c), 1-based; 0 when absent
RECURSIVE FindFrom(_, _, _)
FindFrom(s, c, i) ==
    IF i > Len(s) THEN 0 ELSE IF s[i] = c THEN i ELSE FindFrom(s, c, i + 1)

\* re.split('[..]', s)[0]: the prefix before the first character of cs
RECURSIVE PrefixBefore(_, _, _)
PrefixBefore(s, cs, i) ==
    IF i > Len(s) \/ s[i] \in cs THEN SubSeq(s, 1, i - 1)
    ELSE PrefixBefore(s, cs, i + 1)

\* sep.join(parts), parts a sequence of strings
RECURSIVE Join(_, _)
Join(parts, sep) ==
    IF parts = <<>> THEN <<>>
    ELSE IF Len(parts) = 1 THEN parts[1]
    ELSE parts[1] \o sep \o Join(Tail(parts), sep)

\* next(csv.reader([s], delimiter=',')) for unquoted text: an empty line is
\* an empty row
CsvRow(s) == IF s = <<>> THEN <<>> ELSE Split(s, ",")

Digits == {"0", "1", "2", "3", "4", "5", "6", "7", "8", "9"}

DigitVal(d) ==
    CASE d = "0" -> 0 [] d = "1" -> 1 [] d = "2" -> 2 [] d = "3" -> 3
      [] d = "4" -> 4 [] d = "5" -> 5 [] d = "6" -> 6 [] d = "7" -> 7
      [] d = "8" -> 8 [] d = "9" -> 9

DigitOf(n) ==
    CASE n = 0 -> "0" [] n = 1 -> "1" [] n = 2 -> "2" [] n = 3 -> "3"
      [] n = 4 -> "4" [] n = 5 -> "5" [] n = 6 -> "6" [] n = 7 -> "7"
      [] n = 8 -> "8" [] n = 9 -> "9"

\* str(n) for 0 <= n <= 9
Str(n) == <<DigitOf(n)>>

IsNumeral(s) == s # <<>> /\ \A i \in 1..Len(s) : s[i] \in Digits

RECURSIVE IntOf(_)
\* int(s) for a numeral
IntOf(s) == IF Len(s) = 1 THEN DigitVal(s[1])
            ELSE 10 * IntOf(SubSeq(s, 1, Len(s) - 1)) + DigitVal(s[Len(s)])

----------------------------------------------------------------------------
(* Results of a call: a value, or the exception raised *)

Ok(v) == [err |-> "none", val |-> v]
Raise(e) == [err |-> e, val |-> <<>>]

\* Python dicts
EmptyDict == [x \in {} |-> 0]
DictSet(d, key, v) == [x \in (DOMAIN d) \cup {key} |-> IF x = key THEN v ELSE d[x]]

----------------------------------------------------------------------------
(* The configurations the manager is built from *)

None == <<"None">>

PkSource == <<"u", ".", "k", "@", "d">>

\* the source strings of a generated property ^Provider.method(args)
GenSource(cls, args) == <<"^", cls, ".", "f", "(">> \o args \o <<")">>

GenSources ==
    { GenSource("P", <<>>),                 \* ^P.f()
      GenSource("P", <<"@", "s">>),         \* ^P.f(@s)
      GenSource("P", <<"@", "g">>),         \* ^P.f(@g)
      GenSource("P", <<"@", "h">>),         \* ^P.f(@h)
      GenSource("P", <<"@", "z">>),         \* ^P.f(@z), z is no property
      GenSource("P", <<"1">>),              \* ^P.f(1)
      GenSource("P", <<"@", "s", ",">>) }   \* ^P.f(@s,)

\* a provider class that does not exist
UnknownProviderSources == { GenSource("Q", <<>>) }

\* the classes pydoc.locate finds under anonymizer.datasource.providers
ProviderClasses == { <<"P">> }

\* configuration.data['sites'][0]['properties']
PropertyInfos(gsrc, hsrc, sx, gx) ==
    << [source |-> <<"u", ".", "s", "@", "d">>, name |-> <<"s">>, type |-> <<"INT">>,
        user_fk |-> None, aggregate |-> None, expose |-> sx],
       [source |-> <<"o", ".", "a", "@", "d">>, name |-> <<"t">>, type |-> <<"INT">>,
        user_fk |-> <<"o", ".", "u", "@", "d">>, aggregate |-> <<"sum">>,
        expose |-> TRUE],
       [source |-> gsrc, name |-> <<"g">>, type |-> <<"INT">>,
        user_fk |-> None, aggregate |-> None, expose |-> gx],
       [source |-> hsrc, name |-> <<"h">>, type |-> <<"INT">>,
        user_fk |-> None, aggregate |-> None, expose |-> TRUE] >>

\* the same properties with s in table o, reached like t through the
\* foreign key o.u
SharedTableInfos(gsrc) ==
    << [source |-> <<"o", ".", "s", "@", "d">>, name |-> <<"s">>, type |-> <<"INT">>,
        user_fk |-> <<"o", ".", "u", "@", "d">>, aggregate |-> None, expose |-> TRUE],
       [source |-> <<"o", ".", "a", "@", "d">>, name |-> <<"t">>, type |-> <<"INT">>,
        user_fk |-> <<"o", ".", "u", "@", "d">>, aggregate |-> <<"sum">>,
        expose |-> TRUE],
       [source |-> gsrc, name |-> <<"g">>, type |-> <<"INT">>,
        user_fk |-> None, aggregate |-> None, expose |-> TRUE],
       [source |-> GenSource("P", <<>>), name |-> <<"h">>, type |-> <<"INT">>,
        user_fk |-> None, aggregate |-> None, expose |-> TRUE] >>

\* the sources of the second generated property, h
LaterGenSources ==
    { GenSource("P", <<>>), GenSource("P", <<"@", "s">>), GenSource("P", <<"@", "g">>) }

\* a stored property s (exposed or not), an aggregated stored property t
\* joined through a foreign key, and two generated properties g (exposed or
\* not) and h, in this order
Configurations ==
    { PropertyInfos(gsrc, hsrc, sx, gx) :
        gsrc \in GenSources \cup UnknownProviderSources, hsrc \in LaterGenSources,
        sx \in BOOLEAN, gx \in BOOLEAN }
    \cup { SharedTableInfos(gsrc) :
              gsrc \in { GenSource("P", <<>>), GenSource("P", <<"@", "s">>) } }

----------------------------------------------------------------------------
(* class Property *)

\* Property.is_generated, on the source string
SourceIsGenerated(source) == source[1] \in {"^"}

\* Property.__init__: [err, val] with val the Property object; the optional
\* user_fk Property is a sequence of length 0 (None) or 1
Property(source, user_fk, name, tp, aggregate, filter_by, is_pk) ==
    LET table == Split(Split(source, "@")[1], ".")[1]
        column == Split(Split(source, "@")[1], ".")[2]
        nm == IF name = None
              THEN (IF aggregate # None THEN column \o <<"_", "_">> \o aggregate
                    ELSE column)
              ELSE name
        base == [source |-> source, table |-> table, column |-> column,
                 aggregate |-> aggregate, filter_by |-> filter_by,
                 is_pk |-> is_pk, name |-> nm,
                 tp |-> IF tp # None THEN tp ELSE <<"VARCHAR">>,
                 user_fk |-> <<>>, fn_args |-> <<>>]
    IN  IF ~SourceIsGenerated(source)
        THEN IF user_fk # None
             THEN LET fk == [source |-> user_fk,
                             table |-> Split(Split(user_fk, "@")[1], ".")[1],
                             column |-> Split(Split(user_fk, "@")[1], ".")[2],
                             aggregate |-> None]
                  IN  Ok([base EXCEPT !.user_fk = <<fk>>])
             ELSE Ok(base)
        ELSE LET cls == Tail(Split(source, ".")[1])
                 pos == FindFrom(source, "(", 1)
                 args_str == SubSeq(source, pos + 1, Len(source) - 1)
             IN  IF cls \notin ProviderClasses THEN Raise("ProviderNotFound")
                 ELSE Ok([base EXCEPT !.fn_args = CsvRow(args_str)])

is_generated(prop) == SourceIsGenerated(prop.source)

\* Property.full
full(prop) ==
    LET result == prop.table \o <<".">> \o prop.column
    IN  IF prop.aggregate # None
        THEN prop.aggregate \o <<"(">> \o result \o <<")">>
        ELSE result

----------------------------------------------------------------------------
(* class PropertyManager *)

\* PropertyManager.__init__: the loop over the configured properties
RECURSIVE InitProperties(_, _, _)
InitProperties(infos, i, props) ==
    IF i > Len(infos) THEN Ok(props)
    ELSE LET info == infos[i]
             p == Property(info.source, info.user_fk, info.name, info.type,
                           info.aggregate, info.expose, FALSE)
         IN  IF p.err # "none" THEN p
             ELSE InitProperties(infos, i + 1, Append(props, p.val))

\* PropertyManager.__init__ up to the token
NewProperties(infos) ==
    LET user_pk == Property(PkSource, None, None, None, None, TRUE, TRUE)
    IN  InitProperties(infos, 1, <<user_pk.val>>)

\* PropertyManager.get_primary_key (index; 0 is None)
RECURSIVE PrimaryKeyFrom(_, _)
PrimaryKeyFrom(props, i) ==
    IF i > Len(props) THEN 0
    ELSE IF props[i].is_pk THEN i ELSE PrimaryKeyFrom(props, i + 1)

get_primary_key(props) == PrimaryKeyFrom(props, 1)

\* PropertyManager.get_property_by_name (index; 0 is None)
RECURSIVE PropertyByNameFrom(_, _, _)
PropertyByNameFrom(props, name, i) ==
    IF i > Len(props) THEN 0
    ELSE IF props[i].name = name THEN i ELSE PropertyByNameFrom(props, name, i + 1)

get_property_by_name(props, name) == PropertyByNameFrom(props, name, 1)

\* PropertyManager.get_dependencies; depth is the depth of the Python stack
RECURSIVE get_dependencies(_, _, _)
RECURSIVE DependenciesLoop(_, _, _, _, _)
DependenciesLoop(props, fn_args, i, result, depth) ==
    IF i > Len(fn_args) THEN Ok(result)
    ELSE LET p_name == fn_args[i]
         IN  IF p_name = <<>> THEN Raise("IndexError")          \* ''[0]
             ELSE IF p_name[1] = "@"
             THEN LET dep_prop == get_property_by_name(props, Tail(p_name))
                      sub == get_dependencies(props, dep_prop, depth + 1)
                  IN  IF sub.err # "none" THEN sub
                      ELSE DependenciesLoop(props, fn_args, i + 1,
                                            result \o <<dep_prop>> \o sub.val, depth)
             ELSE DependenciesLoop(props, fn_args, i + 1, result, depth)

get_dependencies(props, prop, depth) ==
    IF depth > MaxDepth THEN Raise("RuntimeError")   \* maximum recursion depth exceeded
    ELSE IF prop = 0 THEN Raise("AttributeError")    \* None.is_generated()
    ELSE IF is_generated(props[prop])
         THEN DependenciesLoop(props, props[prop].fn_args, 1, <<>>, depth)
         ELSE Ok(<<>>)

----------------------------------------------------------------------------
(* External collaborators *)

\* hashlib.sha1(str(token) + '###' + str(raw)).hexdigest(): a deterministic
\* mapping of (token, raw key), one-to-one on the keys of the model
Sha1(tok, raw) == tok * 10 + raw

\* A provider operation prop.fn(fn_args): the integer its first argument
\* denotes, 0 without one.  An argument is a value substituted for an @ref
\* ([str |-> FALSE, v |-> n]) or the literal text ([str |-> TRUE, v |-> text]).
ProviderFn(fn_args) ==
    IF fn_args = <<>> THEN 0
    ELSE LET a == fn_args[1]
         IN  IF ~a.str THEN a.v
             ELSE IF IsNumeral(a.v) THEN IntOf(a.v) % (MaxVal + 1) ELSE 0

\* The comparison the text after the property name of a filter denotes
\* (= != > >= < <=) between v and an integer operand
HoldsCmp(operator, v, exp) ==
    CASE operator = <<"=">> -> v = exp
      [] operator = <<"!", "=">> -> v # exp
      [] operator = <<">">> -> v > exp
      [] operator = <<">", "=">> -> v >= exp
      [] operator = <<"<">> -> v < exp
      [] operator = <<"<", "=">> -> v <= exp
      [] OTHER -> FALSE

OpChars == {"=", "<", ">", "!"}

\* the parts of a predicate  lhs op operand
PredLhs(f) == PrefixBefore(f, OpChars, 1)
PredOp(f) == PrefixBefore(SubSeq(f, Len(PredLhs(f)) + 1, Len(f)), Digits, 1)
PredOperand(f) == SubSeq(f, Len(PredLhs(f)) + Len(PredOp(f)) + 1, Len(f))

\* the tokens of q after keyword kw up to the next of the keywords in stop,
\* without the ANDs: the predicates of one clause
RECURSIVE ClauseFrom(_, _, _)
ClauseFrom(q, i, stop) ==
    IF i > Len(q) \/ q[i] \in stop THEN <<>>
    ELSE IF q[i] = <<"AND">> THEN ClauseFrom(q, i + 1, stop)
    ELSE <<q[i]>> \o ClauseFrom(q, i + 1, stop)

RECURSIVE IndexOfToken(_, _, _)
IndexOfToken(q, t, i) ==
    IF i > Len(q) THEN 0 ELSE IF q[i] = t THEN i ELSE IndexOfToken(q, t, i + 1)

Clause(q, kw) ==
    IF IndexOfToken(q, kw, 1) = 0 THEN <<>>
    ELSE ClauseFrom(q, IndexOfToken(q, kw, 1) + 1,
                    {<<"WHERE">>, <<"GROUP BY">>, <<"HAVING">>})

\* the select list of q: the tokens between SELECT and FROM, without commas
SelectItems(q) ==
    SelectSeq(SubSeq(q, 2, IndexOfToken(q, <<"FROM">>, 1) - 1),
              LAMBDA t : t # <<",">>)

\* the column of the select list a predicate's left side names, by alias
\* (expr AS alias) or by expression; 0 when it names none
RECURSIVE ColumnOf(_, _, _)
ColumnOf(items, lhs, i) ==
    IF i > Len(items) THEN 0
    ELSE LET as == IndexOfToken(items[i], "AS", 1)
             expr == SubSeq(items[i], 1, as - 1)
             alias == SubSeq(items[i], as + 1, Len(items[i]))
         IN  IF lhs = alias \/ lhs = expr THEN i ELSE ColumnOf(items, lhs, i + 1)

RowSatisfies(items, row, f) ==
    HoldsCmp(PredOp(f), row[ColumnOf(items, PredLhs(f), 1)], IntOf(PredOperand(f)))

\* connection.execute(query).fetchall(): the rows of the store that satisfy
\* the WHERE and the HAVING predicates, in store order; an OperationalError
\* when a predicate names no selected column or is malformed
Execute(q, rows) ==
    LET items == SelectItems(q)
        preds == Clause(q, <<"WHERE">>) \o Clause(q, <<"HAVING">>)
        bad(f) == \/ ColumnOf(items, PredLhs(f), 1) = 0
                  \/ ~IsNumeral(PredOperand(f))
                  \/ PredOp(f) \notin {<<"=">>, <<"!", "=">>, <<">">>,
                                       <<">", "=">>, <<"<">>, <<"<", "=">>}
    IN  IF \E j \in 1..Len(preds) : bad(preds[j]) THEN Raise("OperationalError")
        ELSE Ok(SelectSeq(rows, LAMBDA row :
                    \A j \in 1..Len(preds) : RowSatisfies(items, row, preds[j])))

----------------------------------------------------------------------------
(* PropertyManager.info *)

\* first loop: fill property values from the database row
RECURSIVE InfoStored(_, _, _, _, _, _)
InfoStored(props, tok, row, i, idx, result) ==
    IF i > Len(props) THEN result
    ELSE LET prop == props[i]
         IN  IF ~is_generated(prop)
             THEN InfoStored(props, tok, row, i + 1, idx + 1,
                      DictSet(result, prop.name,
                              IF prop.is_pk THEN Sha1(tok, row[idx + 1])
                              ELSE row[idx + 1]))
             ELSE InfoStored(props, tok, row, i + 1, idx, result)

\* the replacement of the @name arguments by their values
RECURSIVE SubstituteArgs(_, _, _, _)
SubstituteArgs(fn_args, i, result, acc) ==
    IF i > Len(fn_args) THEN Ok(acc)
    ELSE LET fn_arg == fn_args[i]
         IN  IF fn_arg # <<>> /\ fn_arg[1] = "@"
             THEN IF Tail(fn_arg) \in DOMAIN result
                  THEN SubstituteArgs(fn_args, i + 1, result,
                           Append(acc, [str |-> FALSE, v |-> result[Tail(fn_arg)]]))
                  ELSE Raise("PropertyNotFoundException")
             ELSE SubstituteArgs(fn_args, i + 1, result,
                      Append(acc, [str |-> TRUE, v |-> fn_arg]))

\* second loop: generate the other properties, in declaration order
RECURSIVE InfoGenerated(_, _, _)
InfoGenerated(props, i, result) ==
    IF i > Len(props) THEN Ok(result)
    ELSE LET prop == props[i]
         IN  IF is_generated(prop)
             THEN LET fn_args == SubstituteArgs(prop.fn_args, 1, result, <<>>)
                  IN  IF fn_args.err # "none" THEN fn_args
                      ELSE InfoGenerated(props, i + 1,
                               DictSet(result, prop.name, ProviderFn(fn_args.val)))
             ELSE InfoGenerated(props, i + 1, result)

\* info without its last loop
ExposedAll(props, result) == result

\* last loop: remove the non-exposed properties
Exposed(props, result) ==
    LET keys == {key \in DOMAIN result :
                    props[get_property_by_name(props, key)].filter_by}
    IN  [key \in keys |-> result[key]]

info(props, tok, row) ==
    IF row = None THEN Raise("TypeError")      \* None[idx]
    ELSE LET result == InfoGenerated(props, 1,
                           InfoStored(props, tok, row, 1, 0, EmptyDict))
         IN  IF result.err # "none" THEN result
             ELSE Ok(Exposed(props, result.val))

\* [self.info(row) for row in rows]
RECURSIVE InfoAll(_, _, _, _, _)
InfoAll(props, tok, rows, i, acc) ==
    IF i > Len(rows) THEN Ok(acc)
    ELSE LET r == info(props, tok, rows[i])
         IN  IF r.err # "none" THEN r
             ELSE InfoAll(props, tok, rows, i + 1, Append(acc, r.val))

----------------------------------------------------------------------------
(* PropertyManager.query, all, filter, get *)

\* the select list: ','.join(full AS name for the stored properties)
RECURSIVE SelectList(_, _)
SelectList(props, i) ==
    IF i > Len(props) THEN <<>>
    ELSE IF ~is_generated(props[i])
         THEN <<full(props[i]) \o <<"AS">> \o props[i].name>> \o SelectList(props, i + 1)
         ELSE SelectList(props, i + 1)

RECURSIVE CommaJoin(_)
CommaJoin(items) ==
    IF Len(items) <= 1 THEN items
    ELSE <<items[1], <<",">>>> \o CommaJoin(Tail(items))

\* the join clause: one LEFT OUTER JOIN per stored property with a user_fk
RECURSIVE JoinClause(_, _)
JoinClause(props, i) ==
    IF i > Len(props) THEN <<>>
    ELSE IF ~is_generated(props[i]) /\ props[i].user_fk # <<>>
         THEN << <<"LEFT OUTER JOIN">>, props[i].table, <<"ON">>,
                 full(props[i].user_fk[1]) \o <<"=">> \o full(props[1]) >>
              \o JoinClause(props, i + 1)
         ELSE JoinClause(props, i + 1)

\* PropertyManager.query; self.user_pk is self.properties[0]
query(props) ==
    << <<"SELECT">> >> \o CommaJoin(SelectList(props, 1))
    \o << <<"FROM">>, props[1].table >>
    \o JoinClause(props, 1)

\* ' AND '.join(filters)
RECURSIVE AndJoin(_)
AndJoin(fs) ==
    IF Len(fs) <= 1 THEN fs
    ELSE <<fs[1], <<"AND">>>> \o AndJoin(Tail(fs))

GroupBy(props) == << <<"GROUP BY">>, full(props[1]) >>

AllQuery(props) == query(props) \o GroupBy(props)

\* PropertyManager.all: [query executed, result]
all(props, tok, rows) ==
    LET q == AllQuery(props)
        fetched == Execute(q, rows)
    IN  [sql |-> q,
         out |-> IF fetched.err # "none" THEN fetched
                 ELSE InfoAll(props, tok, fetched.val, 1, <<>>)]

----------------------------------------------------------------------------
(* Property.matches and PropertyManager.filter_by_generated *)

\* the operator characters that follow the property name
RECURSIVE LeadingRun(_, _, _)
LeadingRun(s, cs, i) ==
    IF i > Len(s) \/ s[i] \notin cs THEN SubSeq(s, 1, i - 1)
    ELSE LeadingRun(s, cs, i + 1)

Quotes == {"\"", "'"}

StripQuotes(s) ==
    IF s[1] = s[Len(s)] /\ s[1] \in Quotes THEN SubSeq(s, 2, Len(s) - 1) ELSE s

IsScalarType(tp) == Len(tp) >= 6 /\ SubSeq(tp, 1, 6) = <<"s", "c", "a", "l", "a", "r">>

\* the index (from 0) of the first range of a scalar type that names exp,
\* -1 when none does
RECURSIVE ScalarIndex(_, _, _)
ScalarIndex(ranges, exp, i) ==
    IF i > Len(ranges) THEN -1
    ELSE LET r_arr == Split(ranges[i], "=")
         IN  IF \E j \in 1..Len(r_arr) : r_arr[j] = exp THEN i - 1
             ELSE ScalarIndex(ranges, exp, i + 1)

\* the last if/elif chain of matches, val an integer and exp an integer
\* ([str |-> FALSE]) or, when it is no numeral, a string, which Python 2
\* orders after every number
ApplyOperator(operator, val, exp) ==
    CASE operator = <<"=">> -> Ok(~exp.str /\ val = exp.v)
      [] operator = <<"!", "=">> -> Ok(exp.str \/ val # exp.v)
      [] operator = <<">">> -> Ok(~exp.str /\ val > exp.v)
      [] operator = <<">", "=">> -> Ok(~exp.str /\ val >= exp.v)
      [] operator = <<"<">> -> Ok(exp.str \/ val < exp.v)
      [] operator = <<"<", "=">> -> Ok(exp.str \/ val <= exp.v)
      [] OTHER -> Raise("UnknownOperatorException")

\* Property.matches(val, filter_exp), val an integer
matches(prop, val, filter_exp) ==
    LET f_name == PrefixBefore(filter_exp, {"=", "!", "<", ">"}, 1)
        rest == SubSeq(filter_exp, Len(f_name) + 1, Len(filter_exp))
        operator == LeadingRun(rest, {"=", "<", ">", "!"}, 1)
        exp0 == SubSeq(rest, Len(operator) + 1, Len(rest))
    IN  IF exp0 = <<>> THEN Raise("IndexError")       \* exp[0]
        ELSE LET exp == StripQuotes(exp0)
             IN  IF IsScalarType(prop.tp)
                 THEN LET inner == SubSeq(prop.tp, FindFrom(prop.tp, "(", 1) + 1,
                                          Len(prop.tp) - 1)
                          idx == ScalarIndex(Split(inner, ","), exp, 1)
                      IN  IF idx < 0 THEN Raise("ValueError")
                          ELSE ApplyOperator(operator, val, [str |-> FALSE, v |-> idx])
                 ELSE IF IsNumeral(exp)
                      THEN ApplyOperator(operator, val, [str |-> FALSE, v |-> IntOf(exp)])
                      ELSE ApplyOperator(operator, val, [str |-> TRUE, v |-> exp])

\* the inner loop of filter_by_generated: the results that match g_filter
RECURSIVE MatchingResults(_, _, _, _, _)
MatchingResults(prop, results, g_filter, i, new_results) ==
    IF i > Len(results) THEN Ok(new_results)
    ELSE IF prop.name \notin DOMAIN results[i] THEN Raise("KeyError")
    ELSE LET m == matches(prop, results[i][prop.name], g_filter)
         IN  IF m.err # "none" THEN m
             ELSE MatchingResults(prop, results, g_filter, i + 1,
                      IF m.val THEN Append(new_results, results[i]) ELSE new_results)

RECURSIVE filter_by_generated(_, _, _, _)
filter_by_generated(props, results, generated_filters, i) ==
    IF i > Len(generated_filters) THEN Ok(results)
    ELSE LET g_filter == generated_filters[i]
             f_name == PrefixBefore(g_filter, {"=", "<", ">"}, 1)
             prop == get_property_by_name(props, f_name)
         IN  IF prop = 0 THEN Raise("AttributeError")   \* None.is_generated()
             ELSE IF is_generated(props[prop])
             THEN LET new_results == MatchingResults(props[prop], results, g_filter, 1, <<>>)
                  IN  IF new_results.err # "none" THEN new_results
                      ELSE filter_by_generated(props, new_results.val,
                                               generated_filters, i + 1)
             ELSE filter_by_generated(props, results, generated_filters, i + 1)

----------------------------------------------------------------------------
(* PropertyManager.filter *)

\* The argument of filter: None, a list of filter strings, or one string
NoFilters == [kind |-> "None", v |-> <<>>]
FilterList(fs) == [kind |-> "list", v |-> fs]
FilterString(str) == [kind |-> "str", v |-> str]

\* str.replace(' and ', ' AND '); each separator is one symbol
ReplaceAnd(str) == [i \in 1..Len(str) |-> IF str[i] = " and " THEN " AND " ELSE str[i]]

\* the separation without its test of prop.aggregate
RECURSIVE SeparateFiltersNoAggregate(_, _, _, _)
SeparateFiltersNoAggregate(props, filters, i, acc) ==
    IF i > Len(filters) THEN acc
    ELSE LET f == filters[i]
             prop == get_property_by_name(props, PrefixBefore(f, {"=", "<", ">"}, 1))
         IN  IF prop = 0 THEN [acc EXCEPT !.err = "AttributeError"]
             ELSE IF ~props[prop].filter_by
             THEN [acc EXCEPT !.err = "PropertyNotFoundException"]
             ELSE IF is_generated(props[prop])
             THEN SeparateFiltersNoAggregate(props, filters, i + 1,
                      [acc EXCEPT !.generated = Append(@, f)])
             ELSE SeparateFiltersNoAggregate(props, filters, i + 1,
                      [acc EXCEPT !.concrete = Append(@, f)])

\* the loop that separates the filters: [err, generated, concrete, aggregate]
RECURSIVE SeparateFilters(_, _, _, _)
SeparateFilters(props, filters, i, acc) ==
    IF i > Len(filters) THEN acc
    ELSE LET f == filters[i]
             prop == get_property_by_name(props, PrefixBefore(f, {"=", "<", ">"}, 1))
         IN  IF prop = 0 THEN [acc EXCEPT !.err = "AttributeError"]   \* None.filter_by
             ELSE IF ~props[prop].filter_by
             THEN [acc EXCEPT !.err = "PropertyNotFoundException"]
             ELSE IF is_generated(props[prop])
             THEN SeparateFilters(props, filters, i + 1,
                      [acc EXCEPT !.generated = Append(@, f)])
             ELSE IF props[prop].aggregate = None
             THEN SeparateFilters(props, filters, i + 1,
                      [acc EXCEPT !.concrete = Append(@, f)])
             ELSE SeparateFilters(props, filters, i + 1,
                      [acc EXCEPT !.aggregate = Append(@, f)])

\* the query filter builds from the separated filters
FilterQuery(props, sep) ==
    query(props)
    \o (IF sep.concrete # <<>> THEN << <<"WHERE">> >> \o AndJoin(sep.concrete) ELSE <<>>)
    \o GroupBy(props)
    \o (IF sep.aggregate # <<>> THEN << <<"HAVING">> >> \o AndJoin(sep.aggregate) ELSE <<>>)

\* PropertyManager.filter after the test of 'not filters'
FilterBody(props, tok, filters, rows) ==
    IF filters.kind = "None" THEN [sql |-> <<>>, out |-> Raise("AttributeError")]
    ELSE
    LET fs == IF filters.kind = "list" THEN filters.v
              ELSE Split(ReplaceAnd(filters.v), " AND ")
        sep == SeparateFilters(props, fs, 1,
                   [err |-> "none", generated |-> <<>>, concrete |-> <<>>,
                    aggregate |-> <<>>])
    IN  IF sep.err # "none" THEN [sql |-> <<>>, out |-> Raise(sep.err)]
        ELSE LET q == FilterQuery(props, sep)
                 fetched == Execute(q, rows)
                 result == IF fetched.err # "none" THEN fetched
                           ELSE InfoAll(props, tok, fetched.val, 1, <<>>)
             IN  [sql |-> q,
                  out |-> IF result.err # "none" THEN result
                          ELSE filter_by_generated(props, result.val, sep.generated, 1)]

\* filter without its test of 'not filters'
FilterWithoutTest(props, tok, filters, rows) == FilterBody(props, tok, filters, rows)

\* PropertyManager.filter: [query executed, result]
filter(props, tok, filters, rows) ==
    IF filters.v = <<>>                       \* not filters
    THEN all(props, tok, rows)
    ELSE FilterBody(props, tok, filters, rows)

----------------------------------------------------------------------------
(* UserManager.get and PropertyManager.get *)

\* PropertyManager.get(pk): fetchone() is the first row, or None
pm_get(props, tok, pk, rows) ==
    LET q == query(props)
             \o << <<"WHERE">>, full(props[1]) \o <<"=">> \o Str(pk) >>
        fetched == Execute(q, rows)
    IN  [sql |-> q,
         out |-> IF fetched.err # "none" THEN fetched
                 ELSE info(props, tok,
                           IF fetched.val = <<>> THEN None ELSE fetched.val[1])]

\* UserManager.get(pk)
get(props, tok, pk, rows) ==
    LET q == << <<"SELECT">>, full(props[1]) \o <<"AS", "pk">>,
                <<"FROM">>, props[1].table,
                <<"WHERE">>, <<"pk", "=">> \o Str(pk) >>
        result == Execute(q, rows)
    IN  IF result.err # "none" THEN [sql |-> q, out |-> result]
        ELSE IF Len(result.val) = 0 \/ Len(result.val) > 1
        THEN [sql |-> q, out |-> Raise("UserManagerException")]
        ELSE pm_get(props, tok, pk, rows)

----------------------------------------------------------------------------
(* The earlier manager module (datasource/manager.py): its PropertyManager *)
(* over the same properties; its Property keeps source, table, column,     *)
(* name and user_fk alike and knows no aggregate and no expose flag        *)

legacy_full(prop) == prop.table \o <<".">> \o prop.column

RECURSIVE LegacySelectList(_, _)
LegacySelectList(props, i) ==
    IF i > Len(props) THEN <<>>
    ELSE IF ~is_generated(props[i])
         THEN <<legacy_full(props[i]) \o <<"AS">> \o props[i].name>>
              \o LegacySelectList(props, i + 1)
         ELSE LegacySelectList(props, i + 1)

RECURSIVE LegacyJoinClause(_, _)
LegacyJoinClause(props, i) ==
    IF i > Len(props) THEN <<>>
    ELSE IF ~is_generated(props[i]) /\ props[i].user_fk # <<>>
         THEN << <<"LEFT OUTER JOIN">>, props[i].table, <<"ON">>,
                 legacy_full(props[i].user_fk[1]) \o <<"=">> \o legacy_full(props[1]) >>
              \o LegacyJoinClause(props, i + 1)
         ELSE LegacyJoinClause(props, i + 1)

legacy_query(props) ==
    << <<"SELECT">> >> \o CommaJoin(LegacySelectList(props, 1))
    \o << <<"FROM">>, props[1].table >>
    \o LegacyJoinClause(props, 1)

\* first loop of info: the row's values as they are
RECURSIVE LegacyInfoStored(_, _, _, _, _)
LegacyInfoStored(props, row, i, idx, result) ==
    IF i > Len(props) THEN result
    ELSE IF ~is_generated(props[i])
         THEN LegacyInfoStored(props, row, i + 1, idx + 1,
                  DictSet(result, props[i].name, row[idx + 1]))
         ELSE LegacyInfoStored(props, row, i + 1, idx, result)

legacy_info(props, row) ==
    IF row = None THEN Raise("TypeError")
    ELSE InfoGenerated(props, 1, LegacyInfoStored(props, row, 1, 0, EmptyDict))

RECURSIVE LegacyInfoAll(_, _, _, _)
LegacyInfoAll(props, rows, i, acc) ==
    IF i > Len(rows) THEN Ok(acc)
    ELSE LET r == legacy_info(props, rows[i])
         IN  IF r.err # "none" THEN r
             ELSE LegacyInfoAll(props, rows, i + 1, Append(acc, r.val))

\* [query executed, result]
legacy_all(props, rows) ==
    LET q == legacy_query(props)
        fetched == Execute(q, rows)
    IN  [sql |-> q,
         out |-> IF fetched.err # "none" THEN fetched
                 ELSE LegacyInfoAll(props, fetched.val, 1, <<>>)]

legacy_filter(props, filters, rows) ==
    IF filters.v = <<>>                       \* not filters
    THEN legacy_all(props, rows)
    ELSE LET fs == IF filters.kind = "list" THEN filters.v ELSE <<filters.v>>
             q == legacy_query(props) \o << <<"WHERE">> >> \o AndJoin(fs)
             fetched == Execute(q, rows)
         IN  [sql |-> q,
              out |-> IF fetched.err # "none" THEN fetched
                      ELSE LegacyInfoAll(props, fetched.val, 1, <<>>)]

----------------------------------------------------------------------------
(* UserManager.combine *)

\* the loop over the dependencies without its comparison of values
DirtyOnlyWhenMissing(props, dependencies, old_user, u) ==
    \E j \in 1..Len(dependencies) :
        LET name == props[dependencies[j]].name
        IN  name \notin DOMAIN old_user \/ name \notin DOMAIN u

\* the loop over the dependencies: some dependency is missing from a record
\* or differs between the record being merged and the old one
Dirty(props, dependencies, old_user, u) ==
    \E j \in 1..Len(dependencies) :
        LET name == props[dependencies[j]].name
        IN  \/ name \notin DOMAIN old_user
            \/ name \notin DOMAIN u
            \/ u[name] # old_user[name]

\* the loop over self.pm.properties for one user found in the old list
RECURSIVE MergeUser(_, _, _, _)
MergeUser(props, old_user, u, i) ==
    IF i > Len(props) THEN Ok(u)
    ELSE IF is_generated(props[i])
    THEN LET dependencies == get_dependencies(props, i, 1)
         IN  IF dependencies.err # "none" THEN dependencies
             ELSE IF ~Dirty(props, dependencies.val, old_user, u)
             THEN IF props[i].name \notin DOMAIN old_user
                  THEN Raise("KeyError")          \* old_user[prop.name]
                  ELSE MergeUser(props, old_user,
                                 DictSet(u, props[i].name, old_user[props[i].name]),
                                 i + 1)
             ELSE MergeUser(props, old_user, u, i + 1)
    ELSE MergeUser(props, old_user, u, i + 1)

\* the loop over old_list without its comparison of keys
CombineUserAnyKey(props, pk, old_list, user, j) ==
    IF j > Len(old_list) THEN Ok(user)
    ELSE MergeUser(props, old_list[j], user, 1)

\* the loop over old_list for one user of new_list: the merged user, or
\* the user itself when no old user has its key
RECURSIVE CombineUser(_, _, _, _, _)
CombineUser(props, pk, old_list, user, j) ==
    IF j > Len(old_list) THEN Ok(user)
    ELSE IF old_list[j][props[pk].name] = user[props[pk].name]
    THEN MergeUser(props, old_list[j], user, 1)
    ELSE CombineUser(props, pk, old_list, user, j + 1)

RECURSIVE CombineFrom(_, _, _, _, _, _)
CombineFrom(props, pk, old_list, new_list, i, result) ==
    IF i > Len(new_list) THEN Ok(result)
    ELSE LET u == CombineUser(props, pk, old_list, new_list[i], 1)
         IN  IF u.err # "none" THEN u
             ELSE CombineFrom(props, pk, old_list, new_list, i + 1,
                              Append(result, u.val))

\* UserManager.combine(old_list, new_list)
combine(props, old_list, new_list) ==
    CombineFrom(props, get_primary_key(props), old_list, new_list, 1, <<>>)

----------------------------------------------------------------------------
(* The stores of the model: rows (k, s, t) in key order, the aggregate t   *)
(* of a row being MaxVal - s                                               *)

Values == 0..MaxVal

Rows == { <<k, s, MaxVal - s>> : k \in 1..MaxKey, s \in Values }

RECURSIVE StoresFrom(_)
\* the row sequences with strictly increasing keys from k on
StoresFrom(k) ==
    IF k > MaxKey THEN { <<>> }
    ELSE StoresFrom(k + 1)
         \cup { <<row>> \o rest : row \in {r \in Rows : r[1] = k},
                                   rest \in StoresFrom(k + 1) }

Stores == StoresFrom(1)

\* the stores that are empty or hold a row for every key
FullStores == { st \in Stores : Len(st) \in {0, MaxKey} }

----------------------------------------------------------------------------
(* The arguments of the calls *)

FilterNames == { <<"s">>, <<"t">>, <<"g">> }

Operators == { <<"=">>, <<"!", "=">>, <<">">>, <<">", "=">>, <<"<">>, <<"<", "=">> }

\* name op value
FilterExprs == { n \o o \o Str(v) : n \in FilterNames, o \in Operators, v \in Values }

\* the filters that are combined with a second one
PairExprs == { n \o <<">", "=">> \o Str(MaxVal) : n \in FilterNames }

\* the filters given as one string
StringExprs == { n \o <<"<">> \o Str(MaxVal) : n \in {<<"s">>, <<"g">>} }

\* a list with two filters for WHERE, two for HAVING and one on a
\* generated property
MixedFilters ==
    << <<"s">> \o <<">", "=">> \o Str(0), <<"s">> \o <<"<", "=">> \o Str(MaxVal),
       <<"t">> \o <<">", "=">> \o Str(0), <<"t">> \o <<"<", "=">> \o Str(MaxVal),
       <<"g">> \o <<">", "=">> \o Str(MaxVal) >>

FilterArgs ==
    { NoFilters, FilterList(<<>>), FilterList(MixedFilters) }
    \cup { FilterList(<<f>>) : f \in FilterExprs }
    \cup { FilterList(<<f1, f2>>) : f1 \in PairExprs, f2 \in PairExprs }
    \cup { FilterString(f) : f \in StringExprs }
    \cup { FilterString(f1 \o <<sep>> \o f2) :
             f1 \in StringExprs, f2 \in StringExprs, sep \in {" AND ", " and "} }

LegacyFilterArgs ==
    { NoFilters, FilterList(<<>>) }
    \cup { FilterList(<<f>>) : f \in PairExprs }
    \cup { FilterString(f) : f \in StringExprs }

\* The records of a pass over the store: one value per exposed property,
\* the key anonymized with the manager's token
ExposedNames(props) == { props[i].name : i \in {j \in 1..Len(props) : props[j].filter_by} }

Records(props, tok) ==
    { r \in [ExposedNames(props) -> Values \cup {Sha1(tok, k) : k \in 1..MaxKey}] :
        \A n \in ExposedNames(props) : (n = <<"k">>) <=> (r[n] \notin Values) }

\* old passes: every value but the key is 0 (combine only compares values
\* for equality); at most one record per key
OldRecords(props, tok) ==
    { r \in Records(props, tok) : \A n \in DOMAIN r : n # <<"k">> => r[n] = 0 }

OldLists(props, tok) ==
    { <<>> }
    \cup { <<r>> : r \in OldRecords(props, tok) }
    \cup { pair \in { <<r1, r2>> : r1 \in OldRecords(props, tok),
                                      r2 \in OldRecords(props, tok) } :
             pair[1] # pair[2] }

\* new passes: any record, alone or followed by the record of key 1 whose
\* values are all MaxVal
LastRecords(props, tok) ==
    { r \in Records(props, tok) :
        \A n \in DOMAIN r : r[n] = IF n = <<"k">> THEN Sha1(tok, 1) ELSE MaxVal }

NewLists(props, tok) ==
    { <<>> }
    \cup { <<r>> : r \in Records(props, tok) }
    \cup { <<r1, r2>> : r1 \in Records(props, tok), r2 \in LastRecords(props, tok) }

----------------------------------------------------------------------------
(* Specification *)

Init ==
    /\ pc = "new"
    /\ properties = <<>>
    /\ token = 0
    /\ op = "none"
    /\ arg = <<>>
    /\ store = <<>>
    /\ sql = <<>>
    /\ out = Ok(<<>>)
    /\ managers = <<>>
    /\ uuids = 0

\* PropertyManager(connection_manager, configuration, token)
Construct ==
    /\ pc = "new"
    /\ \E infos \in Configurations :
         LET r == NewProperties(infos)
         IN  IF r.err # "none"
             THEN /\ pc' = "failed"
                  /\ out' = r
                  /\ UNCHANGED <<properties, token>>
             ELSE /\ pc' = "returned"
                  /\ properties' = r.val
                  /\ token' = 1
                  /\ out' = Ok(<<>>)
    /\ op' = "__init__"
    /\ UNCHANGED <<arg, store, sql, managers, uuids>>

\* pm.get_dependencies(prop)
GetDependencies ==
    /\ pc = "idle"
    /\ \E p \in 1..Len(properties) :
         /\ arg' = [prop |-> p]
         /\ out' = get_dependencies(properties, p, 1)
    /\ op' = "get_dependencies"
    /\ pc' = "returned"
    /\ UNCHANGED <<properties, token, store, sql, managers, uuids>>

\* the caller takes the result (or the exception); the manager is unchanged
Return ==
    /\ pc = "returned"
    /\ pc' = "idle"
    /\ op' = "none"
    /\ arg' = <<>>
    /\ store' = <<>>
    /\ sql' = <<>>
    /\ out' = Ok(<<>>)
    /\ UNCHANGED <<properties, token, managers, uuids>>

\* pm.all()
All ==
    /\ pc = "idle"
    /\ \E rows \in Stores :
         LET r == all(properties, token, rows)
         IN  /\ store' = rows
             /\ sql' = r.sql
             /\ out' = r.out
    /\ op' = "all"
    /\ arg' = <<>>
    /\ pc' = "returned"
    /\ UNCHANGED <<properties, token, managers, uuids>>

\* pm.filter(filters)
Filter ==
    /\ pc = "idle"
    /\ \E filters \in FilterArgs, rows \in FullStores :
         LET r == filter(properties, token, filters, rows)
         IN  /\ arg' = filters
             /\ store' = rows
             /\ sql' = r.sql
             /\ out' = r.out
    /\ op' = "filter"
    /\ pc' = "returned"
    /\ UNCHANGED <<properties, token, managers, uuids>>

\* UserManager.get(pk)
Get ==
    /\ pc = "idle"
    /\ \E pk \in 1..(MaxKey + 1), rows \in Stores :
         LET r == get(properties, token, pk, rows)
         IN  /\ arg' = [pk |-> pk]
             /\ store' = rows
             /\ sql' = r.sql
             /\ out' = r.out
    /\ op' = "get"
    /\ pc' = "returned"
    /\ UNCHANGED <<properties, token, managers, uuids>>

\* UserManager.combine(old_list, new_list)
Combine ==
    /\ pc = "idle"
    /\ \E old_list \in OldLists(properties, token),
          new_list \in NewLists(properties, token) :
         /\ arg' = [old_list |-> old_list, new_list |-> new_list]
         /\ out' = combine(properties, old_list, new_list)
    /\ op' = "combine"
    /\ pc' = "returned"
    /\ UNCHANGED <<properties, token, store, sql, managers, uuids>>

\* manager.user_manager.all()
LegacyAll ==
    /\ pc = "idle"
    /\ \E rows \in Stores :
         LET r == legacy_all(properties, rows)
         IN  /\ store' = rows
             /\ sql' = r.sql
             /\ out' = r.out
    /\ op' = "legacy_all"
    /\ arg' = <<>>
    /\ pc' = "returned"
    /\ UNCHANGED <<properties, token, managers, uuids>>

\* manager.user_manager.filter(filters)
LegacyFilter ==
    /\ pc = "idle"
    /\ \E filters \in LegacyFilterArgs, rows \in FullStores :
         LET r == legacy_filter(properties, filters, rows)
         IN  /\ arg' = filters
             /\ store' = rows
             /\ sql' = r.sql
             /\ out' = r.out
    /\ op' = "legacy_filter"
    /\ pc' = "returned"
    /\ UNCHANGED <<properties, token, managers, uuids>>

Next ==
    \/ Construct
    \/ GetDependencies
    \/ All
    \/ Filter
    \/ Get
    \/ Combine
    \/ LegacyAll
    \/ LegacyFilter
    \/ Return

Spec == Init /\ [][Next]_vars

----------------------------------------------------------------------------
(* The run token of managers constructed side by side *)

\* token values: None, the function object uuid.uuid4, the result of the
\* n-th call uuid.uuid4(), a value the caller supplies
NoToken == [kind |-> "None", n |-> 0]
Uuid4Function == [kind |-> "function", n |-> 0]
Uuid(n) == [kind |-> "uuid", n |-> n]
Given(v) == [kind |-> "given", n |-> v]

\* the token argument of a constructor call: left out, or supplied
Omitted == [kind |-> "omitted", n |-> 0]
TokenArgs == { Omitted } \cup { Given(v) : v \in 0..MaxToken }

\* not token
Falsy(tok) == tok = NoToken \/ tok = Given(0)

\* the end of PropertyManager.__init__: self.token, after n calls of uuid4
PropertyManagerToken(tok, n) == IF Falsy(tok) THEN Uuid(n + 1) ELSE tok

\* the defaults of the token parameter
PropertyManagerDefault == NoToken
UserManagerDefault == Uuid4Function

\* hashlib.sha1(str(self.token) + '###' + str(raw)) for any token value
TokenHash(tok, raw) == <<tok, raw>>

\* a configuration that constructs and one whose provider is unknown
TokenConfigurations ==
    { PropertyInfos(gsrc, GenSource("P", <<>>), TRUE, TRUE) :
        gsrc \in { GenSource("P", <<>>) } \cup UnknownProviderSources }

\* PropertyManager.__init__ called by `via` with token argument a, whose
\* parameter value is tok
NewManager(via, a, tok, infos) ==
    LET r == NewProperties(infos)
    IN  IF r.err # "none"
        THEN /\ out' = r
             /\ UNCHANGED <<managers, uuids>>
        ELSE /\ managers' = Append(managers,
                 [via |-> via, given |-> a,
                  token |-> PropertyManagerToken(tok, uuids),
                  made |-> PropertyManagerToken(tok, uuids)])
             /\ uuids' = IF Falsy(tok) THEN uuids + 1 ELSE uuids
             /\ out' = Ok(<<>>)

\* PropertyManager(connection_manager, configuration[, token])
NewPropertyManager ==
    /\ Len(managers) < MaxManagers
    /\ \E a \in TokenArgs, infos \in TokenConfigurations :
         NewManager("PropertyManager", a,
                    IF a = Omitted THEN PropertyManagerDefault ELSE a, infos)
    /\ UNCHANGED <<pc, properties, token, op, arg, store, sql>>

\* UserManager(from_str=...[, token])
NewUserManager ==
    /\ Len(managers) < MaxManagers
    /\ \E a \in TokenArgs, infos \in TokenConfigurations :
         NewManager("UserManager", a,
                    IF a = Omitted THEN UserManagerDefault ELSE a, infos)
    /\ UNCHANGED <<pc, properties, token, op, arg, store, sql>>

\* info() of manager m anonymizes the key raw with the manager's token
HashKey ==
    /\ \E m \in 1..Len(managers), raw \in 1..MaxKey :
         out' = Ok(TokenHash(managers[m].token, raw))
    /\ UNCHANGED <<pc, properties, token, op, arg, store, sql, managers, uuids>>

TokenNext == NewPropertyManager \/ NewUserManager \/ HashKey

TokenSpec == Init /\ [][TokenNext]_vars

----------------------------------------------------------------------------
(* Vocabulary of the claims, defined on the property set itself *)

Returned(o) == pc = "returned" /\ op = o

GenProps(props) == { i \in 1..Len(props) : is_generated(props[i]) }

\* the names a property's @ref arguments give
RefNames(prop) ==
    { Tail(prop.fn_args[j]) :
        j \in { x \in 1..Len(prop.fn_args) :
                  prop.fn_args[x] # <<>> /\ prop.fn_args[x][1] = "@" } }

DirectDeps(props, i) == { j \in 1..Len(props) : props[j].name \in RefNames(props[i]) }

RECURSIVE Reach(_, _, _)
Reach(props, S, n) ==
    IF n = 0 THEN S
    ELSE Reach(props, S \cup UNION { DirectDeps(props, j) : j \in S }, n - 1)

\* the transitive dependency closure of property i
Closure(props, i) == Reach(props, DirectDeps(props, i), Len(props))

Unresolved(props) ==
    \E i \in 1..Len(props) : \E n \in RefNames(props[i]) :
        \A j \in 1..Len(props) : props[j].name # n

Cyclic(props) == \E i \in 1..Len(props) : i \in Closure(props, i)

HasEmptyArg(props) ==
    \E i \in 1..Len(props) : \E j \in 1..Len(props[i].fn_args) : props[i].fn_args[j] = <<>>

\* every generated property is declared after the properties it references
DeclaredInOrder(props) ==
    \A i \in 1..Len(props) : \A d \in DirectDeps(props, i) : d < i

WellFormed(props) == ~Unresolved(props) /\ ~Cyclic(props) /\ ~HasEmptyArg(props)

KeyOf(r) == r[<<"k">>]

\* the first record of old_list with the key of user; 0 when there is none
MatchIndex(old_list, user) ==
    LET S == { j \in 1..Len(old_list) : KeyOf(old_list[j]) = KeyOf(user) }
    IN  IF S = {} THEN 0 ELSE CHOOSE j \in S : \A x \in S : j <= x

\* records a and b agree on name n (both lack it, or both hold the same value)
SameValue(a, b, n) ==
    IF n \in DOMAIN a THEN n \in DOMAIN b /\ a[n] = b[n] ELSE n \notin DOMAIN b

ClosureUnchanged(props, P, old, new) ==
    \A d \in Closure(props, P) :
        LET n == props[d].name
        IN  n \in DOMAIN old /\ n \in DOMAIN new /\ old[n] = new[n]

\* a filter expression's property name, operator and operand
NameOf(f) == PredLhs(f)
NamedProp(props, f) == get_property_by_name(props, NameOf(f))

\* the filter expressions an argument of filter stands for
FiltersOf(a) ==
    IF a.kind = "str" THEN Split(ReplaceAnd(a.v), " AND ") ELSE a.v

\* the tokens of q from the one after keyword kw to the next keyword
RawClause(q, kw) ==
    LET from == IndexOfToken(q, kw, 1)
        ends == { i \in (from + 1)..Len(q) :
                    q[i] \in {<<"WHERE">>, <<"GROUP BY">>, <<"HAVING">>} }
        to == IF ends = {} THEN Len(q) + 1 ELSE CHOOSE i \in ends : \A x \in ends : i <= x
    IN  IF from = 0 THEN <<>> ELSE SubSeq(q, from + 1, to - 1)

\* a clause is its predicates joined by AND
JoinedByAnd(clause) ==
    /\ Len(clause) % 2 = 1
    /\ \A i \in 1..Len(clause) : (clause[i] = <<"AND">>) <=> (i % 2 = 0)

InSeq(x, seq) == \E i \in 1..Len(seq) : seq[i] = x

----------------------------------------------------------------------------
(* The claims *)

(* C1: combine keeps the old value of every generated property whose whole *)
(* dependency closure is present and equal in the old and the new record   *)
(* of one key - also of a generated property that is not exposed in the    *)
(* records.  Stated for well-formed property sets (no cycle, no unresolved *)
(* or empty @ref), where dependency resolution itself cannot fail.         *)
C1_CleanKeepsOld ==
    (Returned("combine") /\ WellFormed(properties)) =>
        \A i \in 1..Len(arg.new_list) :
            LET user == arg.new_list[i]
                j == MatchIndex(arg.old_list, user)
            IN  j # 0 =>
                \A P \in GenProps(properties) :
                    ClosureUnchanged(properties, P, arg.old_list[j], user) =>
                        /\ out.err = "none"
                        /\ SameValue(out.val[i], arg.old_list[j], properties[P].name)

ValueAtTurn(d, P, merged, new, n) == IF d < P THEN merged[n] ELSE new[n]

ClosureUnchangedAtTurn(props, P, old, new, merged) ==
    \A d \in Closure(props, P) :
        LET n == props[d].name
        IN  /\ n \in DOMAIN old
            /\ n \in DOMAIN new
            /\ old[n] = ValueAtTurn(d, P, merged, new, n)

C3_NewKeyUnchanged ==
    (Returned("combine") /\ out.err = "none") =>
        /\ Len(out.val) = Len(arg.new_list)
        /\ \A i \in 1..Len(arg.new_list) :
             MatchIndex(arg.old_list, arg.new_list[i]) = 0 =>
                 out.val[i] = arg.new_list[i]

\* C3's case: combine returned a record of a new key as it was, next to a
\* record of an old key that it changed
C3_Witness ==
    /\ Returned("combine")
    /\ out.err = "none"
    /\ arg.old_list # <<>>
    /\ \E i, j \in 1..Len(arg.new_list) :
         /\ MatchIndex(arg.old_list, arg.new_list[i]) = 0
         /\ out.val[i] = arg.new_list[i]
         /\ MatchIndex(arg.old_list, arg.new_list[j]) # 0
         /\ out.val[j] # arg.new_list[j]

(* C4: on a property set without cycles (and without unresolved            *)
(* references), whatever the declaration order, row evaluation gives every *)
(* generated property a value: all() over a non-empty store returns one    *)
(* record per row.                                                         *)
C4_AnyDeclarationOrder ==
    (Returned("all") /\ ~Cyclic(properties) /\ ~Unresolved(properties)) =>
        /\ out.err = "none"
        /\ Len(out.val) = Len(store)

\* filter f names a generated property
OnGenerated(props, f) ==
    NamedProp(props, f) # 0 /\ is_generated(props[NamedProp(props, f)])

\* record r satisfies every filter of fs that names a generated property
SatisfiesGenerated(props, fs, r) ==
    \A x \in 1..Len(fs) :
        OnGenerated(props, fs[x]) =>
            HoldsCmp(PredOp(fs[x]), r[NameOf(fs[x])], IntOf(PredOperand(fs[x])))

C6_GeneratedFilterExact ==
    (Returned("filter") /\ arg.kind = "list" /\ Len(arg.v) = 1
        /\ DeclaredInOrder(properties) /\ ~Unresolved(properties)) =>
        LET f == arg.v[1]
            P == NamedProp(properties, f)
            unfiltered == all(properties, token, store).out.val
        IN  (P # 0 /\ properties[P].filter_by /\ is_generated(properties[P])) =>
              /\ out.err = "none"
              /\ out.val = SelectSeq(unfiltered, LAMBDA r :
                               HoldsCmp(PredOp(f), r[NameOf(f)], IntOf(PredOperand(f))))

(* C7: a record returned by row evaluation (through all, filter or get)    *)
(* holds exactly the exposed properties: none whose expose flag is false,  *)
(* every one whose flag is true.                                           *)
C7_OnlyExposed ==
    (pc = "returned" /\ op \in {"all", "filter", "get"} /\ out.err = "none") =>
        LET records == IF op = "get" THEN <<out.val>> ELSE out.val
        IN  \A i \in 1..Len(records) :
              DOMAIN records[i] = ExposedNames(properties)

\* C7's case: a record was returned whose generated property h was computed
\* from the non-exposed generated property g
C7_Witness ==
    /\ Returned("all")
    /\ out.err = "none"
    /\ out.val # <<>>
    /\ ~properties[4].filter_by
    /\ RefNames(properties[5]) = { <<"g">> }
    /\ RefNames(properties[4]) = { <<"s">> }
    /\ \E i \in 1..Len(out.val) : out.val[i][<<"h">>] = MaxVal
    /\ \A i \in 1..Len(out.val) : <<"g">> \notin DOMAIN out.val[i]

(* C8: filter with an empty list or with None gives what all() gives on    *)
(* the same manager and store: the same query, the same records in the     *)
(* same order (or the same exception) - in the manager module and in the   *)
(* earlier one.                                                            *)
C8_EmptyFilterIsAll ==
    /\ (Returned("filter") /\ arg.v = <<>> /\ arg.kind \in {"None", "list"}) =>
            /\ sql = AllQuery(properties)
            /\ out = all(properties, token, store).out
    /\ (Returned("legacy_filter") /\ arg.v = <<>> /\ arg.kind \in {"None", "list"}) =>
            /\ sql = legacy_query(properties)
            /\ out = legacy_all(properties, store).out

\* C8's case: filter(None) returned two records
C8_Witness ==
    /\ Returned("filter")
    /\ arg = NoFilters
    /\ out.err = "none"
    /\ Len(out.val) = MaxKey

(* C9: when the @ref arguments form a cycle, get_dependencies of a         *)
(* property on the cycle ends with a cyclic-dependency error.              *)
C9_CycleDetected ==
    (Returned("get_dependencies") /\ arg.prop \in Closure(properties, arg.prop)) =>
        out.err = "CyclicDependencyError"

(* C10: no manager exists whose property set has an @ref argument that     *)
(* names no property: construction fails on such a configuration.          *)
C10_NoUnresolvedRef ==
    pc \in {"idle", "returned"} => ~Unresolved(properties)

\* the tables the stored properties reach through a foreign key
ForeignTables(props) ==
    { props[i].table :
        i \in { j \in 1..Len(props) : ~is_generated(props[j]) /\ props[j].user_fk # <<>> } }

\* the number of LEFT OUTER JOINs of query q with table
JoinCount(q, table) ==
    Cardinality({ i \in 1..(Len(q) - 1) :
                    q[i] = <<"LEFT OUTER JOIN">> /\ q[i + 1] = table })

(* C11: a query the manager executes joins each table that stored          *)
(* properties reach through a foreign key at most once, and the query of   *)
(* all() exactly once, however many properties reach it.                   *)
C11_OneJoinPerTable ==
    (pc = "returned" /\ op \in {"all", "filter", "get"} /\ sql # <<>>) =>
        \A T \in ForeignTables(properties) :
            /\ JoinCount(sql, T) <= 1
            /\ op = "all" => JoinCount(sql, T) = 1

(* C12: the token of a manager is the one its construction gave it; two    *)
(* managers constructed without a token argument, through UserManager or   *)
(* PropertyManager, have different tokens; two managers with one token     *)
(* were both given that token by their callers.                            *)
C12_TokenStableAndDistinct ==
    /\ \A m \in 1..Len(managers) : managers[m].token = managers[m].made
    /\ \A m, n \in 1..Len(managers) :
         m # n =>
           /\ (managers[m].given = Omitted /\ managers[n].given = Omitted) =>
                  managers[m].token # managers[n].token
           /\ managers[m].token = managers[n].token =>
                  /\ managers[m].given.kind = "given"
                  /\ managers[m].given = managers[n].given

\* row evaluation succeeds on the property set, so that records of it exist
Evaluable(props) == DeclaredInOrder(props) /\ ~Unresolved(props)

StoredNames(props) ==
    { props[i].name : i \in { j \in 1..Len(props) : ~is_generated(props[j]) } }

(* C13: on lists of records of one property set, combine completes without *)
(* error and returns one record per new record, in order: each has the key *)
(* set of its new record and the new record's value for every stored       *)
(* property, the primary key included (so no record present only in the    *)
(* old list appears).                                                      *)
C13_CombineCompletes ==
    (Returned("combine") /\ Evaluable(properties)) =>
        /\ out.err = "none"
        /\ Len(out.val) = Len(arg.new_list)
        /\ \A i \in 1..Len(arg.new_list) :
             /\ DOMAIN out.val[i] = DOMAIN arg.new_list[i]
             /\ \A n \in StoredNames(properties) \cap DOMAIN arg.new_list[i] :
                  out.val[i][n] = arg.new_list[i][n]

====
